---- MODULE Spec2Model ----
(***************************************************************************)
(* BankSight dashboard (src/n.py): the SQLite store, the ledger page       *)
(* (page_credit_sim: check / deposit / withdraw), the CRUD page            *)
(* (page_crud), the table pages (page_view_tables, page_filter) and the    *)
(* analytics page (page_analytics), as a state machine.                    *)
(*                                                                         *)
(* Numbers.  The code computes balances with Python floats                 *)
(* (float(balance) + float(amount)).  A float is modelled as an integer    *)
(* count of the smallest representable unit whose binary expansion has at  *)
(* most FloatPrec significant bits; every arithmetic result is rounded to  *)
(* the nearest such number, ties to even (IEEE 754 binary64 is the case    *)
(* FloatPrec = 53).                                                        *)
(***************************************************************************)
EXTENDS Integers, Sequences, FiniteSets, TLC

\* ------------------------------------------------------------------ bounds
FloatPrec == 3      \* significant bits of a float
MaxOps == 2         \* page submissions per behaviour

VARIABLES
    db,         \* committed store: table name -> sequence of rows
    now,        \* the clock datetime.utcnow() reads, in ticks
    outcome,    \* the message the last page run rendered (st.success / st.error)
    last,       \* the inputs of the last page run and the balance it read
    nOps,       \* page runs so far
    db0,        \* the store as the bulk load left it
    net,        \* customer_id -> exact signed sum of the amounts of successful deposits/withdraws
    nOk,        \* successful deposits and withdraws so far
    nRec,       \* successful deposits and withdraws whose audit insert succeeded
    pc,         \* session -> where its run of page_credit_sim stands
    loc,        \* session -> the locals of its run (action, customer_id, amount, balance)
    sout,       \* session -> the message its last run rendered
    writer,     \* the session whose connection holds SQLite's write lock, 0 for none
    wdb,        \* the store as the write transaction in progress sees it
    crud,       \* the inputs of the last run of page_crud
    open,       \* connections a page run opened and left without close()
    tab,        \* the inputs of the last run of page_view_tables / page_filter
    ana         \* the last run of page_analytics: question, schema, query built

vars == <<db, now, outcome, last, nOps, db0, net, nOk, nRec,
          pc, loc, sout, writer, wdb, crud, open, tab, ana>>

seqVars == <<outcome, last, net, nOk, nRec>>
raceVars == <<pc, loc, sout, writer, wdb>>
ledgerVars == <<last, net, nOk, nRec, pc, loc, sout, writer>>
pageVars == <<open, tab, ana>>

\* ------------------------------------------------------------- SQL values
\* A cell of a row: NULL, a REAL or a TEXT (one record shape for all three).
Null == [k |-> "null", n |-> 0, s |-> ""]
Real(x) == [k |-> "real", n |-> x, s |-> ""]
Text(t) == [k |-> "text", n |-> 0, s |-> t]

\* ---------------------------------------------------------------- floats
RECURSIVE Pow2(_)
Pow2(e) == IF e = 0 THEN 1 ELSE 2 * Pow2(e - 1)

\* The exponent of the grid a magnitude m >= 0 lies on: the least e with
\* m \div 2^e < 2^FloatPrec.
RECURSIVE GridExp(_)
GridExp(m) == IF m < Pow2(FloatPrec) THEN 0 ELSE 1 + GridExp(m \div 2)

\* Round a magnitude to the nearest float, ties to the even mantissa.
RoundMag(m) ==
    LET e == GridExp(m)
        q == m \div Pow2(e)
        r == m % Pow2(e)
        up == \/ 2 * r > Pow2(e)
              \/ 2 * r = Pow2(e) /\ q % 2 = 1
    IN  (IF up THEN q + 1 ELSE q) * Pow2(e)

RoundFloat(x) == IF x < 0 THEN 0 - RoundMag(0 - x) ELSE RoundMag(x)

IsFloat(x) == RoundFloat(x) = x

\* float.__add__ and float.__sub__
FloatAdd(a, b) == RoundFloat(a + b)
FloatSub(a, b) == RoundFloat(a - b)

\* ------------------------------------------------------------------ clock
TicksPerSec == 2

\* datetime.utcnow().isoformat()
IsoFormat(t) == Text("T" \o ToString(t))

\* f"txn_{int(datetime.utcnow().timestamp())}": whole seconds only
TxnId(t) == Text("txn_" \o ToString(t \div TicksPerSec))

\* ----------------------------------------------------------- page inputs
\* st.text_input("Enter customer_id ...")
CustomerInputs == {"C0001", "C0002"}

\* st.number_input("Enter Amount", min_value=0.0): the numbers a user may
\* type, of which the widget hands over those not below min_value.
MinAmount == 0
AmountTyped == {-1, 0, 1, 8}
\* Mutant: the widget without its min_value.
AmountInputs_NoMin == AmountTyped

AmountInputs == {a \in AmountTyped : a >= MinAmount}

\* st.radio("Select Action", ...)
Actions == {"Check Balance", "Deposit", "Withdraw"}

\* The statement of a submission at which the store raises, if any.
Faults == {"none", "update", "insert"}

\* ------------------------------------------------------- ledger statements
SetMin(S) == CHOOSE x \in S : \A y \in S : x <= y

\* Mutant: the WHERE clause left out of the SELECT.
FetchOne_NoWhere(rows, cid) == IF Len(rows) = 0 THEN 0 ELSE 1

\* SELECT account_balance FROM accounts WHERE customer_id = ?; fetchone():
\* the index of the first matching row, 0 when there is none.
FetchOne(rows, cid) ==
    LET m == {i \in 1..Len(rows) : rows[i].customer_id = Text(cid)}
    IN  IF m = {} THEN 0 ELSE SetMin(m)

\* The number in a cell, 0 for a cell that holds none.
Num0(cell) == IF cell.k = "real" THEN cell.n ELSE 0

\* balance = row[0] if row[0] is not None else 0.0
BalanceOf(row) ==
    IF row.account_balance.k = "null" THEN Real(0) ELSE row.account_balance

\* float(balance) raises ValueError on a text that is no number
FloatRaises(cell) == cell.k # "real"

\* Mutants of the funds check: the comparison turned round; the check left out.
InsufficientFunds_Inverted(amount, balance) == amount < balance
InsufficientFunds_Never(amount, balance) == FALSE

\* if float(amount) > float(balance): "Insufficient funds."
InsufficientFunds(amount, balance) == amount > balance

\* Mutant: the withdraw branch adds, as the deposit branch does.
NewBalance_Add(action, balance, amount) == FloatAdd(balance, amount)

\* new_balance = float(balance) +/- float(amount)
NewBalance(action, balance, amount) ==
    IF action = "Deposit" THEN FloatAdd(balance, amount)
    ELSE FloatSub(balance, amount)

\* Mutant: the UPDATE without its WHERE clause.
ExecUpdateBalance_NoWhere(d, cid, nb, t) ==
    [d EXCEPT !["accounts"] =
        [i \in 1..Len(@) |->
            [@[i] EXCEPT !.account_balance = Real(nb),
                         !.last_updated = IsoFormat(t)]]]

\* UPDATE accounts SET account_balance = ?, last_updated = ? WHERE customer_id = ?
ExecUpdateBalance(d, cid, nb, t) ==
    [d EXCEPT !["accounts"] =
        [i \in 1..Len(@) |->
            IF @[i].customer_id = Text(cid)
            THEN [@[i] EXCEPT !.account_balance = Real(nb),
                              !.last_updated = IsoFormat(t)]
            ELSE @[i]]]

\* Mutant: the withdraw branch pasted from the deposit branch unchanged.
TxnType_Pasted(action) == "deposit"

TxnType(action) == IF action = "Deposit" THEN "deposit" ELSE "withdraw"

\* The row of INSERT INTO transactions (txn_id, customer_id, txn_type,
\* amount, txn_time, status) VALUES (?, ?, ?, ?, ?, ?)
TxnRow(action, cid, amount, t) ==
    [txn_id |-> TxnId(t), customer_id |-> Text(cid),
     txn_type |-> Text(TxnType(action)), amount |-> Real(amount),
     txn_time |-> IsoFormat(t), status |-> Text("success")]

ExecInsertTxn(d, action, cid, amount, t) ==
    [d EXCEPT !["transactions"] = Append(@, TxnRow(action, cid, amount, t))]

\* The audit insert inside its own try/except: a failure is passed over
\* and the connection's transaction keeps the balance update.
TryInsertTxn(w, action, cid, amount, t, fault) ==
    IF fault = "insert" THEN w ELSE ExecInsertTxn(w, action, cid, amount, t)

\* Mutant: the audit insert without its own try/except.
AuditFailureEscapes_NoTry(fault) == fault = "insert"

\* `except Exception: pass` around the audit insert: its failure never
\* leaves the inner try.
AuditFailureEscapes(fault) == FALSE

\* The deposit / withdraw branch once the funds check has passed: UPDATE,
\* audit INSERT, conn.commit().  An exception that reaches the outer except
\* skips the commit, and conn.close() drops the uncommitted transaction.
Mutate(d, action, cid, balance, amount, t, fault) ==
    IF fault = "update" \/ AuditFailureEscapes(fault)
    THEN [db |-> d, outcome |-> "error"]
    ELSE LET nb == NewBalance(action, balance, amount)
             w1 == ExecUpdateBalance(d, cid, nb, t)
             w2 == TryInsertTxn(w1, action, cid, amount, t, fault)
         IN  [db |-> w2,
              outcome |-> IF action = "Deposit" THEN "deposited" ELSE "withdrawn"]

\* row[0] of the row a submission fetches (Null when there is no row).
ReadBalance(d, cid) ==
    LET i == FetchOne(d["accounts"], cid)
    IN  IF i = 0 THEN Null ELSE d["accounts"][i].account_balance

\* The part of a submission before any write: the SELECT and the branches
\* that end the run at once; "go" when the run goes on to its UPDATE.
Precheck(d, action, cid, amount) ==
    LET i == FetchOne(d["accounts"], cid)
    IN  IF i = 0 THEN "not_found"
        ELSE LET balance == BalanceOf(d["accounts"][i])
             IN  IF FloatRaises(balance) THEN "error"
                 ELSE IF action = "Check Balance" THEN "balance"
                 ELSE IF action = "Deposit" THEN "go"
                 ELSE IF InsufficientFunds(amount, balance.n) THEN "insufficient"
                 ELSE "go"

\* The body of `if st.button("Submit")` in page_credit_sim, run to its end
\* on store d at time t: the store it leaves and the message it renders.
Submit(d, action, cid, amount, t, fault) ==
    LET p == Precheck(d, action, cid, amount)
    IN  IF p # "go" THEN [db |-> d, outcome |-> p]
        ELSE Mutate(d, action, cid,
                    BalanceOf(d["accounts"][FetchOne(d["accounts"], cid)]).n,
                    amount, t, fault)

Succeeded(o) == o \in {"deposited", "withdrawn"}

\* --------------------------------------------------------- initial store
CustomerIds == {"C0001", "C0002"}
InitBalances == {Null, Real(1), Real(5)}

AccountRow(cid, bal) ==
    [customer_id |-> Text(cid), account_balance |-> bal,
     last_updated |-> IsoFormat(0)]

\* accounts.to_sql(..., if_exists="replace", index=False): no key, no
\* uniqueness; a customer may hold several account rows.  The tables of
\* one row, and those of two rows whose first row is C0001's.
InitAccounts ==
    {<<AccountRow(c, b)>> : c \in CustomerIds, b \in InitBalances}
    \cup {<<AccountRow("C0001", b[1]), AccountRow(c, b[2])>> :
              c \in CustomerIds, b \in InitBalances \X InitBalances}

\* a row of transactions.csv
BulkTxn ==
    [txn_id |-> Text("T0001"), customer_id |-> Text("C0001"),
     txn_type |-> Text("deposit"), amount |-> Real(5),
     txn_time |-> IsoFormat(0), status |-> Text("failed")]

\* Browser sessions, each running the script on a connection of its own.
Sessions == {1, 2}

NoLoc == [action |-> "none", cid |-> "", amount |-> 0, balance |-> 0]

NoRun == [action |-> "none", cid |-> "", amount |-> 0, fault |-> "none",
          found |-> FALSE, read |-> Null]

\* rows of customers.csv, loans.json, branches_fixed.json, support_tickets.json
BulkCustomer ==
    [customer_id |-> Text("C0001"), name |-> Text("Asha"), city |-> Text("Pune")]
BulkLoan ==
    [Loan_ID |-> Text("L0001"), Customer_ID |-> Text("C0001"),
     Loan_Amount |-> Real(8), Loan_Status |-> Text("Active")]
BulkBranch == [Branch_ID |-> Text("B0001"), Branch_Name |-> Text("Main")]
BulkTicket ==
    [Ticket_ID |-> Text("T0001"), Priority |-> Text("Critical"),
     Status |-> Text("Open")]

NoCrud == [op |-> "none", table |-> "", key_val |-> "", col |-> <<>>,
           new_val |-> "", fault |-> "none"]

NoTab == [page |-> "none", table |-> ""]

\* The tables the analytics questions read.
AnaTables == {"customers", "accounts", "transactions", "loans", "support_tickets"}

NoAna == [q |-> "none",
          cols |-> [customers |-> {}, accounts |-> {}, transactions |-> {},
                    loans |-> {}, support_tickets |-> {}],
          built |-> FALSE, refs |-> {}, roles |-> {}, named |-> {}]

Init ==
    /\ \E a \in InitAccounts :
          db = [accounts |-> a, transactions |-> <<BulkTxn>>,
                customers |-> <<BulkCustomer>>, loans |-> <<BulkLoan>>,
                branches |-> <<BulkBranch>>, support_tickets |-> <<BulkTicket>>]
    /\ crud = NoCrud
    /\ open = 0
    /\ tab = NoTab
    /\ ana = NoAna
    /\ db0 = db
    /\ now = 0
    /\ outcome = "none"
    /\ last = NoRun
    /\ nOps = 0
    /\ net = [c \in CustomerInputs |-> 0]
    /\ nOk = 0
    /\ nRec = 0
    /\ pc = [s \in Sessions |-> "idle"]
    /\ loc = [s \in Sessions |-> NoLoc]
    /\ sout = [s \in Sessions |-> "none"]
    /\ writer = 0
    /\ wdb = db

\* ---------------------------------------------------------------- actions
\* datetime.utcnow() at a page run: the previous run's tick or the next.
ClockSteps == {0, 1}

\* One run of page_credit_sim with Submit pressed.
Run(action, cid, amount, fault, dt) ==
    LET r == Submit(db, action, cid, amount, now + dt, fault)
        ok == Succeeded(r.outcome)
    IN  /\ nOps < MaxOps
        /\ db' = r.db
        /\ outcome' = r.outcome
        /\ last' = [action |-> action, cid |-> cid, amount |-> amount,
                    fault |-> fault,
                    found |-> FetchOne(db["accounts"], cid) # 0,
                    read |-> ReadBalance(db, cid)]
        /\ nOps' = nOps + 1
        /\ net' = IF ~ok THEN net
                  ELSE [net EXCEPT ![cid] =
                            IF action = "Deposit" THEN @ + amount ELSE @ - amount]
        /\ nOk' = IF ok THEN nOk + 1 ELSE nOk
        /\ nRec' = IF ok /\ fault # "insert" THEN nRec + 1 ELSE nRec
        /\ now' = now + dt
        /\ wdb' = r.db
        /\ UNCHANGED <<db0, pc, loc, sout, writer, crud, pageVars>>

CheckBalance ==
    \E c \in CustomerInputs, dt \in ClockSteps :
        Run("Check Balance", c, MinAmount, "none", dt)

Deposit ==
    \E c \in CustomerInputs, a \in AmountInputs, f \in Faults, dt \in ClockSteps :
        Run("Deposit", c, a, f, dt)

Withdraw ==
    \E c \in CustomerInputs, a \in AmountInputs, f \in Faults, dt \in ClockSteps :
        Run("Withdraw", c, a, f, dt)

Next == CheckBalance \/ Deposit \/ Withdraw

Spec == Init /\ [][Next]_vars

\* ------------------------------------------ page_credit_sim, step by step
\* Two sessions run page_credit_sim at once, each statement a step.  A
\* SELECT reads the committed store and takes no lock that outlasts it; the
\* first write statement of a connection opens its transaction and takes the
\* write lock, which conn.commit() (or conn.close()) gives back.

\* Mutant: the run opens its transaction (BEGIN IMMEDIATE) before the SELECT.
LocksAtSelect_Immediate == TRUE

\* Whether the write lock is taken when the SELECT runs: sqlite3 opens no
\* transaction for a SELECT.
LocksAtSelect == FALSE

\* Submit pressed: the SELECT, fetchone() and the branches up to the UPDATE.
RSubmit(s) ==
    \E action \in Actions, cid \in CustomerInputs, amount \in AmountInputs :
        LET p == Precheck(db, action, cid, amount)
        IN  /\ action = "Check Balance" => amount = MinAmount
            /\ pc[s] \in {"idle", "done"}
            /\ nOps < MaxOps
            /\ LocksAtSelect => writer = 0
            /\ nOps' = nOps + 1
            /\ loc' = [loc EXCEPT ![s] =
                          [action |-> action, cid |-> cid, amount |-> amount,
                           balance |-> Num0(ReadBalance(db, cid))]]
            /\ pc' = [pc EXCEPT ![s] = IF p = "go" THEN "update" ELSE "done"]
            /\ sout' = [sout EXCEPT ![s] = IF p = "go" THEN "running" ELSE p]
            /\ writer' = IF LocksAtSelect /\ p = "go" THEN s ELSE writer
            /\ UNCHANGED <<db, now, db0, wdb, seqVars, crud, pageVars>>

\* Mutant: the connection in autocommit mode (isolation_level=None): the
\* UPDATE is durable as soon as it has run.
RUpdate_Autocommit(s) ==
    /\ pc[s] = "update"
    /\ writer \in {0, s}
    /\ writer' = s
    /\ wdb' = ExecUpdateBalance(db, loc[s].cid,
                   NewBalance(loc[s].action, loc[s].balance, loc[s].amount),
                   now)
    /\ db' = wdb'
    /\ pc' = [pc EXCEPT ![s] = "insert"]
    /\ UNCHANGED <<now, db0, nOps, loc, sout, seqVars, crud, pageVars>>

\* The UPDATE: opens the write transaction on the committed store.
RUpdate(s) ==
    /\ pc[s] = "update"
    /\ writer \in {0, s}
    /\ writer' = s
    /\ wdb' = ExecUpdateBalance(db, loc[s].cid,
                   NewBalance(loc[s].action, loc[s].balance, loc[s].amount),
                   now)
    /\ pc' = [pc EXCEPT ![s] = "insert"]
    /\ UNCHANGED <<db, now, db0, nOps, loc, sout, seqVars, crud, pageVars>>

\* The UPDATE raises (another connection keeps the write lock beyond the
\* busy timeout, or any other store error): the outer except reports it.
RUpdateFails(s) ==
    /\ pc[s] = "update"
    /\ pc' = [pc EXCEPT ![s] = "done"]
    /\ sout' = [sout EXCEPT ![s] = "error"]
    /\ writer' = IF writer = s THEN 0 ELSE writer
    /\ UNCHANGED <<db, now, db0, nOps, loc, wdb, seqVars, crud, pageVars>>

\* The audit INSERT, in its own try/except, inside the same transaction.
RInsert(s) ==
    \E fault \in {"none", "insert"} :
        /\ pc[s] = "insert"
        /\ IF AuditFailureEscapes(fault)
           THEN /\ pc' = [pc EXCEPT ![s] = "done"]
                /\ sout' = [sout EXCEPT ![s] = "error"]
                /\ writer' = 0
                /\ wdb' = db
           ELSE /\ pc' = [pc EXCEPT ![s] = "commit"]
                /\ wdb' = TryInsertTxn(wdb, loc[s].action, loc[s].cid,
                                       loc[s].amount, now, fault)
                /\ UNCHANGED <<sout, writer>>
        /\ UNCHANGED <<db, now, db0, nOps, loc, seqVars, crud, pageVars>>

\* conn.commit() and the success message.
RCommit(s) ==
    /\ pc[s] = "commit"
    /\ db' = wdb
    /\ writer' = 0
    /\ pc' = [pc EXCEPT ![s] = "done"]
    /\ sout' = [sout EXCEPT ![s] =
                    IF loc[s].action = "Deposit" THEN "deposited" ELSE "withdrawn"]
    /\ UNCHANGED <<now, db0, nOps, loc, wdb, seqVars, crud, pageVars>>

RaceNext ==
    \E s \in Sessions :
        RSubmit(s) \/ RUpdate(s) \/ RUpdateFails(s) \/ RInsert(s) \/ RCommit(s)

SpecRace == Init /\ [][RaceNext]_vars

\* ---------------------------------------------------------------- page_crud
\* tables_supported
TablesSupported ==
    {"customers", "accounts", "transactions", "loans", "branches",
     "support_tickets"}

\* get_key_col(table); "" stands for None
get_key_col(table) ==
    CASE table = "customers" -> "customer_id"
      [] table = "accounts" -> "customer_id"
      [] table = "transactions" -> "txn_id"
      [] table = "loans" -> "Loan_ID"
      [] table = "branches" -> "Branch_ID"
      [] table = "support_tickets" -> "Ticket_ID"
      [] OTHER -> ""

\* PRAGMA table_info(table): the columns the bulk load gave each table.
Schema(table) ==
    CASE table = "customers" -> {"customer_id", "name", "city"}
      [] table = "accounts" -> {"customer_id", "account_balance", "last_updated"}
      [] table = "transactions" ->
            {"txn_id", "customer_id", "txn_type", "amount", "txn_time", "status"}
      [] table = "loans" -> {"Loan_ID", "Customer_ID", "Loan_Amount", "Loan_Status"}
      [] table = "branches" -> {"Branch_ID", "Branch_Name"}
      [] table = "support_tickets" -> {"Ticket_ID", "Priority", "Status"}
      [] OTHER -> {}

\* The columns to_sql declares FLOAT: SQLite gives them REAL affinity.
RealColumns == {"account_balance", "amount", "Loan_Amount"}

\* Texts that read as a number, and the number; numeric literals likewise.
NumberTexts == {"0", "7"}
NumberOf(text) == IF text = "0" THEN 0 ELSE 7

\* Column affinity on store: a text that reads as a number becomes a REAL
\* in a REAL column; any other value is stored as it is.
Stored(col, cell) ==
    IF col \in RealColumns /\ cell.k = "text" /\ cell.s \in NumberTexts
    THEN Real(NumberOf(cell.s))
    ELSE cell

\* SQL text as SQLite's tokenizer sees it: a sequence of tokens.
SqlMarks == {"UPDATE", "DELETE", "FROM", "SET", "WHERE", "=", ",", "?", "--"}
IsIdent(tok) == tok \notin SqlMarks /\ tok \notin NumberTexts

FirstIndex(toks, tok) ==
    LET m == {i \in 1..Len(toks) : toks[i] = tok}
    IN  IF m = {} THEN 0 ELSE SetMin(m)

\* "--" starts a comment that runs to the end of the statement.
StripComment(toks) ==
    LET c == FirstIndex(toks, "--")
    IN  IF c = 0 THEN toks ELSE SubSeq(toks, 1, c - 1)

\* The comma-separated parts of a token sequence.
RECURSIVE SplitCommas(_)
SplitCommas(toks) ==
    LET c == FirstIndex(toks, ",")
    IN  IF c = 0 THEN <<toks>>
        ELSE <<SubSeq(toks, 1, c - 1)>>
             \o SplitCommas(SubSeq(toks, c + 1, Len(toks)))

\* column = ? | column = literal
IsAssignment(a) ==
    /\ Len(a) = 3
    /\ IsIdent(a[1])
    /\ a[2] = "="
    /\ a[3] = "?" \/ a[3] \in NumberTexts

CountMarks(toks) == Cardinality({i \in 1..Len(toks) : toks[i] = "?"})

\* The value of the right-hand side of an assignment or comparison that
\* starts at token `at` of statement toks: a literal, or the parameter bound
\* to its question mark (the k-th mark takes the k-th parameter).
ValueAt(toks, at, params) ==
    IF toks[at] = "?" THEN params[CountMarks(SubSeq(toks, 1, at))]
    ELSE Real(NumberOf(toks[at]))

\* cur.execute(sql, params) for an UPDATE statement on store d: the store it
\* leaves in the connection's transaction, or the exception it raises
\* (syntax error, no such table / column, wrong number of bindings).
ExecUpdate(d, sql, params) ==
    LET toks == StripComment(sql)
        w == FirstIndex(toks, "WHERE")
        table == IF Len(toks) >= 2 THEN toks[2] ELSE ""
        setEnd == IF w = 0 THEN Len(toks) ELSE w - 1
        sets == IF setEnd >= 4 THEN SplitCommas(SubSeq(toks, 4, setEnd)) ELSE <<>>
        \* the offset in toks of the first token of the j-th assignment
        offs == [j \in 1..Len(sets) |-> 4 + 4 * (j - 1)]
        whereOk ==
            \/ w = 0
            \/ /\ Len(toks) = w + 3
               /\ IsIdent(toks[w + 1])
               /\ toks[w + 2] = "="
               /\ toks[w + 3] = "?" \/ toks[w + 3] \in NumberTexts
        syntaxOk ==
            /\ Len(toks) >= 3
            /\ toks[1] = "UPDATE"
            /\ toks[3] = "SET"
            /\ sets # <<>>
            /\ \A j \in 1..Len(sets) : IsAssignment(sets[j])
            /\ whereOk
        namesOk ==
            /\ table \in DOMAIN d
            /\ \A j \in 1..Len(sets) : sets[j][1] \in Schema(table)
            /\ w # 0 => toks[w + 1] \in Schema(table)
        bindOk == CountMarks(toks) = Len(params)
        hit(row) ==
            w = 0 \/ row[toks[w + 1]] = ValueAt(toks, w + 3, params)
        \* the row with assignments 1..j applied
        setRow[j \in 0..Len(sets)] ==
            [row \in {d[table][i] : i \in 1..Len(d[table])} |->
                IF j = 0 THEN row
                ELSE [setRow[j - 1][row] EXCEPT ![sets[j][1]] =
                         Stored(sets[j][1], ValueAt(toks, offs[j] + 2, params))]]
    IN  IF ~(syntaxOk /\ namesOk /\ bindOk)
        THEN [ok |-> FALSE, db |-> d]
        ELSE [ok |-> TRUE,
              db |-> [d EXCEPT ![table] =
                        [i \in 1..Len(@) |->
                            IF hit(@[i]) THEN setRow[Len(sets)][@[i]] ELSE @[i]]]]

\* sql = f"UPDATE {table} SET {col_to_update} = ? WHERE {key_col} = ?"
UpdateSql(table, col_to_update, key_col) ==
    <<"UPDATE", table, "SET">> \o col_to_update
        \o <<"=", "?", "WHERE", key_col, "=", "?">>

\* st.text_input("Column to update (exact column name)"): what a user may
\* type, tokenized: a column, a name that is no column, and (for accounts)
\* a text that closes the assignment and opens another, and one that
\* supplies both question marks itself and comments out the rest.
ColumnInputs(table) ==
    {<<c>> : c \in Schema(table)}
    \cup {<<"nosuch">>}
    \cup {<<c, "=", "0", ",", "last_updated">> :
              c \in {"account_balance"} \cap Schema(table)}
    \cup {<<c, "=", "?", ",", "last_updated", "=", "?", "--">> :
              c \in {"account_balance"} \cap Schema(table)}

\* st.text_input(f"Enter {key_col} to update"): a key of a loaded row and a
\* key of none.
KeyInputs(table) ==
    {db[table][i][get_key_col(table)].s : i \in 1..Len(db[table])}
    \cup {"X9999"}

\* st.text_input("New value (string form)")
NewValInputs == {"7", "abc"}

\* page_crud, op == "Update", "Apply Update" pressed.
CrudUpdate ==
    \E table \in TablesSupported :
    \E key_val \in KeyInputs(table), col \in ColumnInputs(table),
       new_val \in NewValInputs :
        LET key_col == get_key_col(table)
            r == ExecUpdate(db, UpdateSql(table, col, key_col),
                            <<Text(new_val), Text(key_val)>>)
        IN  /\ nOps < MaxOps
            /\ key_col # ""
            /\ nOps' = nOps + 1
            /\ db' = r.db
            /\ wdb' = r.db
            /\ outcome' = IF r.ok THEN "updated" ELSE "error"
            /\ crud' = [op |-> "Update", table |-> table, key_val |-> key_val,
                        col |-> col, new_val |-> new_val, fault |-> "none"]
            /\ UNCHANGED <<now, db0, ledgerVars, pageVars>>

\* What a store statement of a page run may do: run, or raise
\* (sqlite3.OperationalError: locked, I/O error, missing table).
StoreFaults == {"none", "store"}

\* page_crud, op == "View": pd.read_sql outside any try; an exception
\* leaves page_crud before its conn.close().
CrudView ==
    \E table \in TablesSupported, fault \in StoreFaults :
        /\ nOps < MaxOps
        /\ nOps' = nOps + 1
        /\ outcome' = IF fault = "none" THEN "shown" ELSE "unhandled"
        /\ open' = IF fault = "none" THEN open ELSE open + 1
        /\ crud' = [op |-> "View", table |-> table, key_val |-> "",
                    col |-> <<>>, new_val |-> "", fault |-> fault]
        /\ UNCHANGED <<db, wdb, now, db0, ledgerVars, tab, ana>>

\* The widget page_crud's Add form gives a column, by the column's name.
AutoColumns == {"Branch_ID", "Loan_ID", "Card_ID"}
DateColumns == {"last_updated"}
NumberColumns == {"account_balance", "amount", "Loan_Amount"}

\* str(st.date_input(col)): today's date
DateStr(t) == Text("D" \o ToString(t \div TicksPerSec))

\* The form as submitted: every widget left as it came up, or every widget
\* filled in.
FormInputs == {"blank", "typed"}

\* insert_vals: the value the INSERT binds for column col; an auto-managed
\* column is left out of the statement and stored as NULL, a text left
\* blank is bound as None, a number widget comes up as 0.0.
InsertVal(table, col, form, t) ==
    IF col \in AutoColumns THEN Null
    ELSE IF col \in DateColumns THEN DateStr(t)
    ELSE IF col \in NumberColumns
    THEN (IF form = "blank" THEN Real(0) ELSE Real(7))
    ELSE IF form = "blank" THEN Null
    ELSE IF col = get_key_col(table) THEN Text("N0001")
    ELSE Text("x")

\* cur.execute(f"INSERT INTO {table} ({cols_sql}) VALUES ({placeholders})")
ExecInsert(d, table, form, t) ==
    [d EXCEPT ![table] =
        Append(@, [c \in Schema(table) |->
                      Stored(c, InsertVal(table, c, form, t))])]

AddFaults == {"none", "columns", "insert"}

\* page_crud, op == "Add", "Add Row" pressed.  get_table_columns runs
\* outside the try: if it raises, page_crud is left before its
\* conn.close(); the INSERT and the commit run inside the try.
CrudAdd ==
    \E table \in TablesSupported, form \in FormInputs, fault \in AddFaults :
        /\ nOps < MaxOps
        /\ nOps' = nOps + 1
        /\ db' = IF fault = "none" THEN ExecInsert(db, table, form, now) ELSE db
        /\ wdb' = db'
        /\ outcome' = CASE fault = "none" -> "added"
                        [] fault = "insert" -> "error"
                        [] OTHER -> "unhandled"
        /\ open' = IF fault = "columns" THEN open + 1 ELSE open
        /\ crud' = [op |-> "Add", table |-> table, key_val |-> "",
                    col |-> <<>>, new_val |-> form, fault |-> fault]
        /\ UNCHANGED <<now, db0, ledgerVars, tab, ana>>

\* cur.execute(f"DELETE FROM {table} WHERE {key_col} = ?", (key_val,))
ExecDelete(d, table, key_col, key_val) ==
    IF key_col \notin Schema(table)
    THEN [ok |-> FALSE, db |-> d]
    ELSE [ok |-> TRUE,
          db |-> [d EXCEPT ![table] =
                    SelectSeq(@, LAMBDA row : row[key_col] # Text(key_val))]]

\* page_crud, op == "Delete", "Delete" pressed.
CrudDelete ==
    \E table \in TablesSupported, fault \in StoreFaults :
    \E key_val \in KeyInputs(table) :
        LET key_col == get_key_col(table)
            r == IF fault = "none" THEN ExecDelete(db, table, key_col, key_val)
                 ELSE [ok |-> FALSE, db |-> db]
        IN  /\ nOps < MaxOps
            /\ key_col # ""
            /\ nOps' = nOps + 1
            /\ db' = r.db
            /\ wdb' = r.db
            /\ outcome' = IF r.ok THEN "deleted" ELSE "error"
            /\ crud' = [op |-> "Delete", table |-> table, key_val |-> key_val,
                        col |-> <<>>, new_val |-> "", fault |-> fault]
            /\ UNCHANGED <<now, db0, ledgerVars, pageVars>>

CrudNext == CrudView \/ CrudAdd \/ CrudUpdate \/ CrudDelete

\* page_crud on a store whose accounts table holds one row.
CrudInit == Init /\ Len(db.accounts) = 1

SpecCrud == CrudInit /\ [][CrudNext]_vars

\* ------------------------------------------- page_view_tables, page_filter
\* The tables the two pages offer.
ViewTables == TablesSupported \cup {"credit_cards"}

\* get_table(table_name): connect, pd.read_sql, conn.close(), with no
\* try/finally: when read_sql raises, close() is not reached and the
\* exception leaves get_table.  What it returns on success, and what it
\* leaves open.
get_table(table, fault) ==
    IF fault = "none" THEN [ok |-> TRUE, left |-> 0]
    ELSE [ok |-> FALSE, left |-> 1]

\* One run of a table page: neither page_view_tables nor page_filter
\* catches what get_table raises.
TablePage(page) ==
    \E table \in ViewTables, fault \in StoreFaults :
        LET r == get_table(table, fault)
        IN  /\ nOps < MaxOps
            /\ nOps' = nOps + 1
            /\ outcome' = IF r.ok THEN "shown" ELSE "unhandled"
            /\ open' = open + r.left
            /\ tab' = [page |-> page, table |-> table]
            /\ UNCHANGED <<db, wdb, now, db0, ledgerVars, crud, ana>>

PageViewTables == TablePage("page_view_tables")

PageFilter == TablePage("page_filter")

\* ----------------------------------------------------------- page_analytics
Questions ==
    {"Q1", "Q2", "Q3", "Q4", "Q5", "Q6", "Q7", "Q8", "Q9", "Q10", "Q11",
     "Q12", "Q13", "Q14", "Q15"}

\* table_has_column(table, col) on a store whose tables have the columns
\* cols[table]: PRAGMA table_info and `col in cols`.
table_has_column(cols, table, col) == col \in cols[table]

\* Mutant: the fallback spelling tried first.
Resolve2_FallbackFirst(cols, table, a, b) ==
    IF table_has_column(cols, table, b) THEN b
    ELSE IF table_has_column(cols, table, a) THEN a
    ELSE ""

\* "A" if table_has_column(t, "A") else ("B" if table_has_column(t, "B")
\* else None); "" stands for None.
Resolve2(cols, table, a, b) ==
    IF table_has_column(cols, table, a) THEN a
    ELSE IF table_has_column(cols, table, b) THEN b
    ELSE ""

\* The columns of table t a query text references.
Ref(t, cs) == {<<t, c>> : c \in cs}

\* What the branch of a question does: the query it hands to the store
\* (the columns it references) or the message it shows instead (the names
\* in the message), the columns it resolved, and whether the query goes
\* through safe_run.
Query(refs, roles) ==
    [built |-> TRUE, refs |-> refs, roles |-> roles, named |-> {}, safe |-> TRUE]
NoQuery(named, roles) ==
    [built |-> FALSE, refs |-> {}, roles |-> roles, named |-> named, safe |-> TRUE]

\* Q1: no lookup; the query joins customers and accounts.
Q1(cols) ==
    Query(Ref("customers", {"city", "customer_id"})
          \cup Ref("accounts", {"customer_id", "account_balance"}), {})

Q2(cols) ==
    IF table_has_column(cols, "accounts", "account_type")
    THEN Query(Ref("accounts", {"account_type", "account_balance"}), {})
    ELSE IF table_has_column(cols, "customers", "account_type")
    THEN Query(Ref("customers", {"account_type", "customer_id"})
               \cup Ref("accounts", {"account_balance", "customer_id"}), {})
    ELSE NoQuery({"account_type"}, {})

Q3(cols) ==
    Query(Ref("accounts", {"customer_id", "account_balance"})
          \cup Ref("customers", {"name", "customer_id"}), {})

\* Q4: accounts.open_date, else customers.join_date, else a query that
\* names both.
Q4(cols) ==
    LET common == Ref("accounts", {"customer_id", "account_balance"})
                  \cup Ref("customers", {"name", "customer_id"})
    IN  IF table_has_column(cols, "accounts", "open_date")
        THEN Query(common \cup Ref("accounts", {"open_date"}), {})
        ELSE IF table_has_column(cols, "customers", "join_date")
        THEN Query(common \cup Ref("customers", {"join_date"}), {})
        ELSE Query(common \cup Ref("accounts", {"open_date"})
                   \cup Ref("customers", {"join_date"}), {})

Q5(cols) == Query(Ref("transactions", {"txn_type", "amount"}), {})

Q6(cols) ==
    IF \/ ~table_has_column(cols, "transactions", "status")
       \/ ~table_has_column(cols, "transactions", "txn_type")
    THEN NoQuery({"status", "txn_type"}, {})
    ELSE Query(Ref("transactions", {"txn_type", "status"}), {})

Q7(cols) ==
    IF ~table_has_column(cols, "transactions", "txn_type")
    THEN NoQuery({"txn_type"}, {})
    ELSE Query(Ref("transactions", {"txn_type", "amount"}), {})

\* Q8 calls run_sql itself, not safe_run.
Q8(cols) ==
    LET id_col == Resolve2(cols, "transactions", "account_id", "customer_id")
        roles == {<<"id", id_col>>}
    IN  IF id_col # ""
        THEN [Query(Ref("transactions", {id_col, "amount"}), roles)
                EXCEPT !.safe = FALSE]
        ELSE NoQuery({"account_id", "customer_id"}, roles)

Q9(cols) ==
    LET loan_amount_col == Resolve2(cols, "loans", "Loan_Amount", "Amount")
        interest_col == Resolve2(cols, "loans", "Interest_Rate", "Interest")
        loan_type_col == Resolve2(cols, "loans", "Loan_Type", "Type")
        roles == {<<"loan_amount", loan_amount_col>>, <<"interest", interest_col>>,
                  <<"loan_type", loan_type_col>>}
    IN  IF loan_amount_col # "" /\ interest_col # "" /\ loan_type_col # ""
        THEN Query(Ref("loans", {loan_type_col, loan_amount_col, interest_col}),
                   roles)
        ELSE NoQuery({"Loan_Amount", "Interest_Rate", "Loan_Type"}, roles)

Q10(cols) ==
    LET status_col == Resolve2(cols, "loans", "Loan_Status", "Status")
        cust_col == Resolve2(cols, "loans", "Customer_ID", "customer_id")
        roles == {<<"status", status_col>>, <<"cust", cust_col>>}
    IN  IF cust_col = "" THEN NoQuery({"customer id"}, roles)
        ELSE IF status_col # ""
        THEN Query(Ref("loans", {cust_col, status_col}), roles)
        ELSE Query(Ref("loans", {cust_col}), roles)

Q11(cols) ==
    LET loan_amount_col == Resolve2(cols, "loans", "Loan_Amount", "Amount")
        cust_col == Resolve2(cols, "loans", "Customer_ID", "customer_id")
        status_col == Resolve2(cols, "loans", "Loan_Status", "Status")
        roles == {<<"loan_amount", loan_amount_col>>, <<"cust", cust_col>>,
                  <<"status", status_col>>}
        joined == Ref("loans", {cust_col, loan_amount_col})
                  \cup Ref("customers", {"name", "customer_id"})
    IN  IF loan_amount_col # "" /\ cust_col # ""
        THEN IF status_col # ""
             THEN Query(joined \cup Ref("loans", {status_col}), roles)
             ELSE Query(joined, roles)
        ELSE NoQuery({"Loan_Amount", "Customer_ID"}, roles)

Q12(cols) ==
    LET branch_col == Resolve2(cols, "loans", "Branch", "Branch_ID")
        loan_amount_col == Resolve2(cols, "loans", "Loan_Amount", "Amount")
        roles == {<<"branch", branch_col>>, <<"loan_amount", loan_amount_col>>}
    IN  IF branch_col # "" /\ loan_amount_col # ""
        THEN Query(Ref("loans", {branch_col, loan_amount_col}), roles)
        ELSE NoQuery({"Branch", "Branch_ID", "Loan_Amount"}, roles)

Q13(cols) ==
    IF table_has_column(cols, "customers", "age")
    THEN Query(Ref("customers", {"age"}), {})
    ELSE IF \/ table_has_column(cols, "customers", "dob")
            \/ table_has_column(cols, "customers", "date_of_birth")
    THEN LET dob_col == IF table_has_column(cols, "customers", "dob")
                        THEN "dob" ELSE "date_of_birth"
         IN  Query(Ref("customers", {dob_col}), {<<"dob", dob_col>>})
    ELSE NoQuery({"age", "date-of-birth"}, {})

Q14(cols) ==
    IF /\ table_has_column(cols, "support_tickets", "Date_Opened")
       /\ table_has_column(cols, "support_tickets", "Date_Closed")
    THEN Query(Ref("support_tickets",
                   {"Issue_Category", "Date_Closed", "Date_Opened"}), {})
    ELSE NoQuery({"Date_Opened", "Date_Closed"}, {})

Q15(cols) ==
    IF \/ ~table_has_column(cols, "support_tickets", "Priority")
       \/ ~table_has_column(cols, "support_tickets", "Customer_Rating")
       \/ ~table_has_column(cols, "support_tickets", "Support_Agent")
    THEN NoQuery({"Priority", "Customer_Rating", "Support_Agent"}, {})
    ELSE Query(Ref("support_tickets",
                   {"Support_Agent", "Customer_Rating", "Priority", "Status"}), {})

\* The if/elif chain on q_num.
Build(q, cols) ==
    CASE q = "Q1" -> Q1(cols) [] q = "Q2" -> Q2(cols) [] q = "Q3" -> Q3(cols)
      [] q = "Q4" -> Q4(cols) [] q = "Q5" -> Q5(cols) [] q = "Q6" -> Q6(cols)
      [] q = "Q7" -> Q7(cols) [] q = "Q8" -> Q8(cols) [] q = "Q9" -> Q9(cols)
      [] q = "Q10" -> Q10(cols) [] q = "Q11" -> Q11(cols)
      [] q = "Q12" -> Q12(cols) [] q = "Q13" -> Q13(cols)
      [] q = "Q14" -> Q14(cols) [] q = "Q15" -> Q15(cols)

\* run_sql(sql): pd.read_sql raises when the store fails or when the
\* query names a column the table does not have.
Raises(cols, refs, fault) ==
    \/ fault = "store"
    \/ \E r \in refs : r[2] \notin cols[r[1]]

\* What the page shows for a branch b: safe_run turns an exception into
\* "Query failed: ..."; Q8's own call of run_sql lets it leave the page.
Shown(cols, b, fault) ==
    IF ~b.built THEN "no_query"
    ELSE IF ~Raises(cols, b.refs, fault) THEN "result"
    ELSE IF b.safe THEN "query_failed"
    ELSE "unhandled"

\* One run of page_analytics for question q on a store whose tables have
\* the columns cols.  run_sql closes its connection in a finally.
PageAnalytics(q, cols, fault) ==
    LET b == Build(q, cols)
    IN  /\ nOps < MaxOps
        /\ nOps' = nOps + 1
        /\ outcome' = Shown(cols, b, fault)
        /\ ana' = [q |-> q, cols |-> cols, built |-> b.built, refs |-> b.refs,
                   roles |-> b.roles, named |-> b.named]
        /\ UNCHANGED <<db, wdb, now, db0, ledgerVars, crud, open, tab>>

\* The columns a question looks up or names, by table.
Cols(customers, accounts, transactions, loans, support_tickets) ==
    [customers |-> customers, accounts |-> accounts,
     transactions |-> transactions, loans |-> loans,
     support_tickets |-> support_tickets]

Mentions(q) ==
    CASE q \in {"Q1", "Q3"} ->
            Cols({"city", "name", "customer_id"},
                 {"customer_id", "account_balance"}, {}, {}, {})
      [] q = "Q2" ->
            Cols({"account_type", "customer_id"},
                 {"account_type", "account_balance", "customer_id"}, {}, {}, {})
      [] q = "Q4" ->
            Cols({"name", "customer_id", "join_date"},
                 {"customer_id", "account_balance", "open_date"}, {}, {}, {})
      [] q \in {"Q5", "Q6", "Q7"} ->
            Cols({}, {}, {"txn_type", "amount", "status"}, {}, {})
      [] q = "Q8" ->
            Cols({}, {}, {"account_id", "customer_id", "amount"}, {}, {})
      [] q = "Q9" ->
            Cols({}, {}, {},
                 {"Loan_Amount", "Amount", "Interest_Rate", "Interest",
                  "Loan_Type", "Type"}, {})
      [] q = "Q10" ->
            Cols({}, {}, {},
                 {"Loan_Status", "Status", "Customer_ID", "customer_id"}, {})
      [] q = "Q11" ->
            Cols({"name", "customer_id"}, {}, {},
                 {"Loan_Amount", "Amount", "Loan_Status", "Status",
                  "Customer_ID", "customer_id"}, {})
      [] q = "Q12" ->
            Cols({}, {}, {}, {"Branch", "Branch_ID", "Loan_Amount", "Amount"}, {})
      [] q = "Q13" ->
            Cols({"age", "dob", "date_of_birth"}, {}, {}, {}, {})
      [] q = "Q14" ->
            Cols({}, {}, {}, {}, {"Date_Opened", "Date_Closed", "Issue_Category"})
      [] q = "Q15" ->
            Cols({}, {}, {}, {},
                 {"Priority", "Customer_Rating", "Support_Agent", "Status"})

\* The schemas a question is run on: each table with any of the columns
\* the question mentions.
Schemas(q) ==
    [customers : SUBSET Mentions(q).customers,
     accounts : SUBSET Mentions(q).accounts,
     transactions : SUBSET Mentions(q).transactions,
     loans : SUBSET Mentions(q).loans,
     support_tickets : SUBSET Mentions(q).support_tickets]

\* On the store as the bulk load left it.
LoadedCols ==
    [customers |-> Schema("customers"), accounts |-> Schema("accounts"),
     transactions |-> Schema("transactions"), loans |-> Schema("loans"),
     support_tickets |-> Schema("support_tickets")]

AnalyticsLoaded ==
    \E q \in Questions, fault \in StoreFaults : PageAnalytics(q, LoadedCols, fault)

\* On any schema.
AnalyticsNext ==
    \E q \in Questions, fault \in StoreFaults :
    \E cols \in Schemas(q) : PageAnalytics(q, cols, fault)

\* page_analytics changes no row: one loaded store stands for all.
AnalyticsInit == Init /\ db.accounts = <<AccountRow("C0001", Real(5))>>

SpecAnalytics == AnalyticsInit /\ [][AnalyticsNext]_vars

\* ------------------------------------------------------- the application
\* Every page of the router, one run at a time.
AppNext ==
    \/ Next
    \/ CrudNext
    \/ PageViewTables
    \/ PageFilter
    \/ AnalyticsLoaded

SpecApp == CrudInit /\ [][AppNext]_vars

\* ------------------------------------------------------------------ claims
Num(cell) == IF cell.k = "real" THEN cell.n ELSE 0

\* The indices of the account rows of customer cid in store d.
RowsOf(d, cid) ==
    {i \in 1..Len(d.accounts) : d.accounts[i].customer_id = Text(cid)}

\* The step is a page run (every step of Next is one).
IsRun == nOps' = nOps + 1

\* The run `last` describes got past the account lookup and the funds check.
ReachedUpdate(l) ==
    /\ l.found
    /\ l.read.k # "text"
    /\ \/ l.action = "Deposit"
       \/ l.action = "Withdraw" /\ l.amount <= Num(l.read)

\* C1: after any sequential series of deposits and withdraws, every account
\* row's stored balance is its initial balance (NULL read as 0) plus the
\* amounts of the successful deposits on its customer minus the amounts of
\* the successful withdraws, in exact arithmetic.
C1_BalanceIsInitialPlusSignedSum ==
    \A i \in 1..Len(db.accounts) :
        Num(db.accounts[i].account_balance)
            = Num(db0.accounts[i].account_balance)
              + net[db.accounts[i].customer_id.s]

\* C2: in every state reachable by sequential check / deposit / withdraw
\* runs, no account row stores a negative balance.
C2_BalanceNeverNegative ==
    \A i \in 1..Len(db.accounts) : Num(db.accounts[i].account_balance) >= 0

\* A withdraw of the whole balance went through and left exactly zero.
C2_Witness ==
    /\ outcome = "withdrawn"
    /\ last.amount > 0
    /\ last.amount = Num(last.read)
    /\ \A i \in RowsOf(db, last.cid) : db.accounts[i].account_balance = Real(0)

\* C3: a withdraw whose amount is strictly greater than the balance read
\* ends in "Insufficient funds." and leaves every table as it was.
C3_OverdrawRejected ==
    [][(/\ IsRun
        /\ last'.action = "Withdraw"
        /\ last'.found
        /\ last'.read.k # "text"
        /\ last'.amount > Num(last'.read))
       => (outcome' = "insufficient" /\ db' = db)]_vars

\* A withdraw of more than a positive balance was rejected.
C3_Witness ==
    /\ outcome = "insufficient"
    /\ last.action = "Withdraw"
    /\ last.read.k = "real"
    /\ last.read.n > 0
    /\ last.amount > last.read.n

\* C4: a run for a customer_id with no row in accounts, whatever the
\* action, ends in "Account (customer_id) not found." and changes no table.
C4_UnknownCustomerNotFound ==
    [][(IsRun /\ RowsOf(db, last'.cid) = {})
       => (outcome' = "not_found" /\ db' = db)]_vars

\* A deposit for a customer with no account row ended in not-found.
C4_Witness ==
    /\ outcome = "not_found"
    /\ last.action = "Deposit"
    /\ last.amount > 0
    /\ RowsOf(db, last.cid) = {}
    /\ db = db0

\* C5 as claimed: the transaction rows added number the successful deposits
\* and withdraws.
C5_OneRecordPerSuccess ==
    Len(db.transactions) = Len(db0.transactions) + nOk

\* C5 as amended: the transaction rows added number the successful deposits
\* and withdraws whose audit insert did not fail; the loaded rows stay, and
\* a row just added carries the run's customer_id, amount, type and
\* status 'success'.
C5_OneRecordPerRecordedSuccess ==
    /\ Len(db.transactions) = Len(db0.transactions) + nRec
    /\ \A i \in 1..Len(db0.transactions) :
          db.transactions[i] = db0.transactions[i]
    /\ (Succeeded(outcome) /\ last.fault # "insert") =>
          LET r == db.transactions[Len(db.transactions)]
          IN  /\ r.customer_id = Text(last.cid)
              /\ r.amount = Real(last.amount)
              /\ r.status = Text("success")
              /\ r.txn_type = Text(IF last.action = "Deposit" THEN "deposit"
                                    ELSE "withdraw")

\* Two successful mutations, of which only the withdraw just run was recorded.
C5_Witness ==
    /\ nOk = 2
    /\ nRec = 1
    /\ outcome = "withdrawn"
    /\ last.fault = "none"
    /\ last.amount > 0

\* The balance the run `last` describes computes: float(balance) +/- amount.
ExpectedBalance(l) ==
    IF l.action = "Deposit" THEN RoundFloat(Num(l.read) + l.amount)
    ELSE RoundFloat(Num(l.read) - l.amount)

\* C6: when the audit insert of a deposit or withdraw fails, the run still
\* reports success and every account row of the customer holds the new
\* balance and the new last_updated.
C6_AuditFailureSwallowed ==
    (last.fault = "insert" /\ ReachedUpdate(last)) =>
        /\ Succeeded(outcome)
        /\ \A i \in RowsOf(db, last.cid) :
              /\ db.accounts[i].account_balance = Real(ExpectedBalance(last))
              /\ db.accounts[i].last_updated = IsoFormat(now)

\* A deposit whose audit insert failed changed the balance and left no row.
C6_Witness ==
    /\ outcome = "deposited"
    /\ last.fault = "insert"
    /\ last.amount > 0
    /\ last.read.k = "real"
    /\ nOk = 1
    /\ Len(db.transactions) = Len(db0.transactions)
    /\ \A i \in RowsOf(db, last.cid) :
          db.accounts[i].account_balance.n > last.read.n

\* The balance session s computes from the balance it read.
StaleBalance(s) ==
    IF loc[s].action = "Deposit"
    THEN RoundFloat(loc[s].balance + loc[s].amount)
    ELSE RoundFloat(loc[s].balance - loc[s].amount)

\* C7: runs of page_credit_sim in two sessions are not mutually excluded: a
\* run that has read the balance and passed the funds check holds no lock
\* while it waits to write; what it then writes and commits is the balance
\* computed from its own read, whatever was committed in between; and a
\* withdraw that succeeded was checked against its own read only.
C7_NotMutuallyExcluded ==
    \A s \in Sessions :
        /\ pc[s] = "update" => writer # s
        /\ pc[s] \in {"insert", "commit"} =>
              /\ writer = s
              /\ \A i \in RowsOf(wdb, loc[s].cid) :
                    wdb.accounts[i].account_balance = Real(StaleBalance(s))
        /\ (pc[s] = "done" /\ sout[s] = "withdrawn") =>
              loc[s].amount <= loc[s].balance

\* Both sessions read the same positive balance of the same customer, both
\* withdraws succeeded and were recorded, and together they took out more
\* than the balance read.
C7_Witness ==
    /\ \A s \in Sessions : pc[s] = "done" /\ sout[s] = "withdrawn"
    /\ loc[1].cid = loc[2].cid
    /\ loc[1].balance = loc[2].balance
    /\ loc[1].balance > 0
    /\ loc[1].amount + loc[2].amount > loc[1].balance
    /\ Len(db.transactions) = Len(db0.transactions) + 2
    /\ \A i \in RowsOf(db, loc[1].cid) :
          db.accounts[i].account_balance.n >= 0

C9_Replay ==
    /\ IsRun
    /\ outcome = "deposited"
    /\ last'.action = "Withdraw"
    /\ last'.cid = last.cid
    /\ last'.amount = last.amount
    /\ last'.fault # "update"

C10_UpdateRejectsUnknownColumn ==
    [][(/\ IsRun
        /\ crud'.op = "Update"
        /\ ~(Len(crud'.col) = 1 /\ crud'.col[1] \in Schema(crud'.table)))
       => (outcome' = "error" /\ db' = db)]_vars

\* C11 as claimed: no step changes or removes a transaction row that is
\* there, and only a step of the ledger page adds one.
C11_TransactionsAppendOnly ==
    [][/\ Len(db'.transactions) >= Len(db.transactions)
       /\ \A i \in 1..Len(db.transactions) :
             db'.transactions[i] = db.transactions[i]
       /\ Len(db'.transactions) > Len(db.transactions) => Next]_vars

\* The key typed in the run of page_crud that the step takes matches no
\* row of its table.
KeyMatchesNone ==
    \A i \in 1..Len(db[crud'.table]) :
        db[crud'.table][i][get_key_col(crud'.table)] # Text(crud'.key_val)

\* C12 as claimed: an update or delete whose key matches no row, the store
\* itself not failing, reports success and leaves every row as it was.
C12_ZeroRowsIsSuccess ==
    [][(/\ IsRun
        /\ crud'.op \in {"Update", "Delete"}
        /\ crud'.fault = "none"
        /\ KeyMatchesNone)
       => (outcome' \in {"updated", "deleted"} /\ db' = db)]_vars

\* C13 as claimed: a query that page_analytics hands to the store names
\* only columns its tables have.
C13_NoQueryOnMissingColumn ==
    ana.built => \A r \in ana.refs : r[2] \in ana.cols[r[1]]

\* The candidate spellings of a role, in the order the code tries them, and
\* the table they are looked up in.
Candidates(role) ==
    CASE role = "loan_amount" -> <<"Loan_Amount", "Amount">>
      [] role = "interest" -> <<"Interest_Rate", "Interest">>
      [] role = "loan_type" -> <<"Loan_Type", "Type">>
      [] role = "status" -> <<"Loan_Status", "Status">>
      [] role = "cust" -> <<"Customer_ID", "customer_id">>
      [] role = "branch" -> <<"Branch", "Branch_ID">>
      [] role = "dob" -> <<"dob", "date_of_birth">>
      [] role = "id" -> <<"account_id", "customer_id">>

RoleTable(role) ==
    CASE role = "dob" -> "customers"
      [] role = "id" -> "transactions"
      [] OTHER -> "loans"

\* The roles a question resolves whatever the schema.
RolesOf(q) ==
    CASE q = "Q8" -> {"id"}
      [] q = "Q9" -> {"loan_amount", "interest", "loan_type"}
      [] q = "Q10" -> {"status", "cust"}
      [] q = "Q11" -> {"loan_amount", "cust", "status"}
      [] q = "Q12" -> {"branch", "loan_amount"}
      [] OTHER -> {}

\* The first element of cands that is in present, "" when none is.
FirstPresent(present, cands) ==
    LET m == {i \in 1..Len(cands) : cands[i] \in present}
    IN  IF m = {} THEN "" ELSE cands[SetMin(m)]

C15_ConnectionsReleased == open = 0

\* C16 as claimed: no page run ends with an exception leaving the page.
C16_FailuresReported == outcome # "unhandled"

\* C17: the committed store changes only when a session commits, and then
\* takes that session's balance update and its transaction record (when
\* the insert went through) in the one step; between the UPDATE and the
\* commit the committed store has neither; and when the UPDATE raises the
\* run ends in an error with the committed store as it was.
C17_SingleCommit ==
    [][/\ db' # db =>
             \E s \in Sessions :
                 /\ pc[s] = "commit" /\ pc'[s] = "done"
                 /\ db' = wdb
                 /\ db'.accounts =
                        ExecUpdateBalance(db, loc[s].cid, StaleBalance(s),
                                          now).accounts
                 /\ db'.transactions \in
                        {db.transactions,
                         Append(db.transactions,
                                TxnRow(loc[s].action, loc[s].cid,
                                       loc[s].amount, now))}
       /\ \A s \in Sessions :
             (pc[s] = "update" /\ pc'[s] = "done") =>
                 (db' = db /\ wdb' = wdb /\ sout'[s] = "error")
       /\ \A s \in Sessions :
             (pc[s] = "insert" /\ pc'[s] = "commit") =>
                 /\ db' = db
                 /\ wdb.transactions = db.transactions
                 /\ wdb'.accounts = wdb.accounts
                 /\ wdb.accounts =
                        ExecUpdateBalance(db, loc[s].cid, StaleBalance(s),
                                          now).accounts]_vars

\* One session's deposit is committed with its record, the other's run
\* ended in an error at its UPDATE, and the store holds the one change.
C17_Witness ==
    \E s, u \in Sessions :
        /\ pc[s] = "done" /\ sout[s] = "deposited"
        /\ pc[u] = "done" /\ sout[u] = "error"
        /\ Len(db.transactions) = Len(db0.transactions) + 1
        /\ db.transactions[Len(db.transactions)].customer_id = Text(loc[s].cid)
        /\ db.accounts # db0.accounts

\* C18: a run of the ledger page for customer c leaves every account row
\* of any other customer, every transaction row that was there and every
\* other table as they were; a balance check leaves the whole store as it
\* was; and a transaction row the run adds is c's.
C18_OnlyOwnCustomerChanges ==
    [][IsRun =>
        /\ last'.action = "Check Balance" => db' = db
        /\ Len(db'.accounts) = Len(db.accounts)
        /\ \A i \in 1..Len(db.accounts) :
              db.accounts[i].customer_id # Text(last'.cid)
                  => db'.accounts[i] = db.accounts[i]
        /\ Len(db'.transactions) >= Len(db.transactions)
        /\ \A i \in 1..Len(db'.transactions) :
              IF i <= Len(db.transactions)
              THEN db'.transactions[i] = db.transactions[i]
              ELSE db'.transactions[i].customer_id = Text(last'.cid)
        /\ \A t \in TablesSupported \ {"accounts", "transactions"} :
              db'[t] = db[t]]_vars

\* A deposit or withdraw for one customer succeeded and changed that
\* customer's row while the accounts table holds a row of another customer.
C18_Witness ==
    /\ Succeeded(outcome)
    /\ nOps = 1
    /\ db.accounts # db0.accounts
    /\ \E i \in 1..Len(db.accounts) :
          db.accounts[i].customer_id # Text(last.cid)
====
